---- MODULE Spec2Model ----
(***************************************************************************)
(* A model of the TTL cache of package cache (src/cache/mycache.go): the    *)
(* items map, the RWMutex around it, the eviction callback, the janitor    *)
(* goroutine, and every caller goroutine's position inside an operation.   *)
(* One action is one step of one goroutine between two points where other  *)
(* goroutines can interleave (a lock operation or the end of a critical    *)
(* section).                                                               *)
(***************************************************************************)
EXTENDS Integers, Sequences, FiniteSets, TLC

\* ---- bounds of the model
MaxTime == 2          \* the clock runs over 0..MaxTime
MaxOps == 2           \* operations the callers start in one run

\* ---- program constants
NoExpiration == -1
DefaultExpiration == 0

\* ---- the inputs the callers draw from
Keys == {"a", "b"}
Callers == {"c1", "c2"}
Jan == "janitor"
Threads == Callers \cup {Jan}
Callbacks == {"f", "g"}            \* f only records; g re-enters the Store with Set
NilFunc == "nil"
Durations == {NoExpiration, DefaultExpiration, 1}
DefaultDurations == {NoExpiration, 0, 2}   \* d of NewCache(d, interval)
Intervals == {0, 2}                        \* interval of NewCache(d, interval)
Deltas == {5}

Int8(n) == [kind |-> "int8", n |-> n]
Str == [kind |-> "string", n |-> 0]
Nil == [kind |-> "nil", n |-> 0]
Objects == {Int8(10), Str}

\* error results
ErrNone == "nil"
ErrExists == "KeyAlreadyExists"
ErrNotFound == "KeyNotFound"
ErrNotNumeric == "NotNumeric"

VARIABLES
  items,              \* c.items: a function from the keys present to Items
  defaultExpiration,  \* c.defaultExpiration
  mu,                 \* c.mu: [writer, readers]; writer names the goroutine whose Lock holds it
  onEvicted,          \* c.onEvicted: NilFunc or a callback
  janitor,            \* c.janitor: [exists, Interval]
  nextTick,           \* the time of the ticker's next tick
  now,                \* time.Now().UnixNano()
  pc,                 \* each goroutine's position
  loc,                \* each goroutine's local variables
  ret,                \* what each caller's last finished operation returned, if anything
  calls,              \* the invocations of the eviction callback, in order
  crashed,            \* the process died (fatal error or unrecovered panic)
  ops                 \* operations started so far

vars == <<items, defaultExpiration, mu, onEvicted, janitor, nextTick, now, pc, loc,
          ret, calls, crashed, ops>>

Item(obj, e) == [Object |-> obj, Expiration |-> e]

\* Expired with the deadline itself counted as expired
ExpiredAtDeadline(item, t) ==
  IF item.Expiration = 0 THEN FALSE ELSE t >= item.Expiration

\* Expired without the never-expires sentinel
ExpiredNoSentinel(item, t) == t > item.Expiration

\* Item.Expired, lines 18-23
Expired(item, t) ==
  IF item.Expiration = 0 THEN FALSE ELSE t > item.Expiration

\* the expiration Set and set compute, lines 44-50 and 62-68
ExpirationOf(d, dflt, t) ==
  LET dd == IF d = DefaultExpiration THEN dflt ELSE d
  IN IF dd > 0 THEN t + dd ELSE 0

\* cache.get, lines 142-155: <<value, found>>
get(its, key, t) ==
  IF key \notin DOMAIN its THEN <<Nil, FALSE>>
  ELSE IF its[key].Expiration > 0 /\ t > its[key].Expiration THEN <<Nil, FALSE>>
  ELSE <<its[key].Object, TRUE>>

\* the map with key bound to item
Put(its, key, item) ==
  [k \in DOMAIN its \cup {key} |-> IF k = key THEN item ELSE its[k]]

\* the map without the keys in ks
Without(its, ks) == [k \in DOMAIN its \ ks |-> its[k]]

\* cache.delete, lines 254-264: the map after it, and its two results
delete(its, cb, key) ==
  IF cb # NilFunc /\ key \in DOMAIN its
    THEN [items |-> Without(its, {key}), v |-> its[key].Object, evicted |-> TRUE]
    ELSE [items |-> Without(its, {key}), v |-> Nil, evicted |-> FALSE]

\* newCache, lines 375-386: the default expiration it stores
newCache(d) == IF d = 0 THEN -1 ELSE d

NoMap == [k \in {} |-> Nil]

NoLoc == [key |-> "", val |-> Nil, d |-> 0, e |-> 0, f |-> NilFunc, evicted |-> {}, cont |-> ""]
\* a result: m is the mapping Items returned, shared tells whether that mapping
\* is the Store's own map object, n is the number returned (the count of
\* ItemCount, the expiration time of GetWithExpiration, 0 for the zero time)
NoRet == [op |-> "", key |-> "", val |-> Nil, err |-> ErrNone, found |-> FALSE,
          m |-> NoMap, shared |-> FALSE, n |-> 0]

\* the maps NewFrom is given, lines 405-407
InitialItems ==
  { NoMap,
    [k \in {"a"} |-> Item(Int8(10), 0)],
    [k \in {"a", "b"} |-> IF k = "a" THEN Item(Str, 1) ELSE Item(Int8(10), 0)] }

\* newCacheWithJanitor, lines 388-397, with RunJanitor, lines 365-373: the state
\* after construction with default expiration d, cleanup interval i and map m,
\* and after OnEvicted(cb), lines 291-295, when cb is a callback
Constructed(d, i, m, cb) ==
  /\ items = m
  /\ defaultExpiration = newCache(d)
  /\ now = 0
  /\ janitor = [exists |-> i > 0, Interval |-> i]
  /\ nextTick = now + i
  /\ pc = [t \in Threads |->
            IF t \in Callers THEN "idle" ELSE IF i > 0 THEN "select" ELSE "none"]
  /\ mu = [writer |-> "none", readers |-> {}]
  /\ onEvicted = cb
  /\ loc = [t \in Threads |-> NoLoc]
  /\ ret = [t \in Callers |-> NoRet]
  /\ calls = <<>>
  /\ crashed = FALSE
  /\ ops = 0

\* NewCache, lines 399-403
InitNew == \E d \in DefaultDurations : \E i \in Intervals : Constructed(d, i, NoMap, NilFunc)

\* NewFrom, lines 405-407
InitFrom ==
  \E d \in DefaultDurations : \E i \in Intervals : \E m \in InitialItems :
    Constructed(d, i, m, NilFunc)

\* NewFrom, then OnEvicted(cb) before any other goroutine runs
InitEvict ==
  \E d \in DefaultDurations : \E i \in Intervals : \E m \in InitialItems :
    \E cb \in Callbacks : Constructed(d, i, m, cb)

\* ---- the lock, sync.RWMutex
CanLock == mu.writer = "none" /\ mu.readers = {}
CanRLock == mu.writer = "none"

\* where a goroutine goes when its operation returns: back into the callback's
\* caller, to the janitor's select, or to idle
Home(t) == IF t = Jan THEN "select" ELSE "idle"
After(t) == IF loc[t].cont # "" THEN loc[t].cont ELSE Home(t)

\* a caller starts an operation
Starts(t) == /\ ~crashed
             /\ t \in Callers
             /\ pc[t] = "idle"
             /\ ops < MaxOps
At(t, p) == ~crashed /\ pc[t] = p

\* c.mu.Unlock() as the last thing goroutine t does in a step, going to p:
\* unlocking an unlocked RWMutex is a fatal error; a locked one is released
\* whoever locked it
UnlockThen(t, p) ==
  /\ mu' = [mu EXCEPT !.writer = "none"]
  /\ crashed' = (mu.writer = "none")
  /\ pc' = [pc EXCEPT ![t] = IF mu.writer = "none" THEN "fatal" ELSE p]

\* the locals of t when its operation returns to p
Back(t, p) == IF p = Home(t) THEN NoLoc ELSE loc[t]

Result(t, r) == IF t \in Callers /\ loc[t].cont = "" THEN [ret EXCEPT ![t] = r] ELSE ret

\* ---- Set, lines 43-58
SetCall(t, k, v, d) ==
  /\ Starts(t)
  /\ loc' = [loc EXCEPT ![t] = [NoLoc EXCEPT !.key = k, !.val = v, !.d = d,
                                  !.e = ExpirationOf(d, defaultExpiration, now)]]
  /\ pc' = [pc EXCEPT ![t] = "SetLock"]
  /\ ops' = ops + 1
  /\ UNCHANGED <<items, defaultExpiration, mu, onEvicted, janitor, nextTick, now, ret,
                 calls, crashed>>

SetLock(t) ==
  /\ At(t, "SetLock")
  /\ CanLock
  /\ mu' = [mu EXCEPT !.writer = t]
  /\ pc' = [pc EXCEPT ![t] = "SetWrite"]
  /\ UNCHANGED <<items, defaultExpiration, onEvicted, janitor, nextTick, now, loc, ret,
                 calls, crashed, ops>>

SetWrite(t) ==
  /\ At(t, "SetWrite")
  /\ items' = Put(items, loc[t].key, Item(loc[t].val, loc[t].e))
  /\ UnlockThen(t, After(t))
  /\ ret' = Result(t, NoRet)
  /\ loc' = [loc EXCEPT ![t] = IF loc[t].cont = "" THEN NoLoc
                               ELSE [Back(t, loc[t].cont) EXCEPT !.cont = ""]]
  /\ UNCHANGED <<defaultExpiration, onEvicted, janitor, nextTick, now, calls, ops>>

\* ---- Add, lines 80-90
AddLock(t, k, v, d) ==
  /\ Starts(t)
  /\ CanLock
  /\ mu' = [mu EXCEPT !.writer = t]
  /\ loc' = [loc EXCEPT ![t] = [NoLoc EXCEPT !.key = k, !.val = v, !.d = d]]
  /\ pc' = [pc EXCEPT ![t] = "AddCheck"]
  /\ ops' = ops + 1
  /\ UNCHANGED <<items, defaultExpiration, onEvicted, janitor, nextTick, now, ret,
                 calls, crashed>>

AddCheck(t) ==
  /\ At(t, "AddCheck")
  /\ IF get(items, loc[t].key, now)[2]
       THEN /\ UnlockThen(t, "idle")
            /\ ret' = [ret EXCEPT ![t] = [NoRet EXCEPT !.op = "Add", !.key = loc[t].key,
                                           !.val = loc[t].val, !.err = ErrExists]]
            /\ loc' = [loc EXCEPT ![t] = NoLoc]
       ELSE /\ pc' = [pc EXCEPT ![t] = "AddSet"]
            /\ UNCHANGED <<mu, crashed, ret, loc>>
  /\ UNCHANGED <<items, defaultExpiration, onEvicted, janitor, nextTick, now, calls, ops>>

AddSet(t) ==
  /\ At(t, "AddSet")
  /\ items' = Put(items, loc[t].key,
                  Item(loc[t].val, ExpirationOf(loc[t].d, defaultExpiration, now)))
  /\ UnlockThen(t, "idle")
  /\ ret' = [ret EXCEPT ![t] = [NoRet EXCEPT !.op = "Add", !.key = loc[t].key,
                                 !.val = loc[t].val]]
  /\ loc' = [loc EXCEPT ![t] = NoLoc]
  /\ UNCHANGED <<defaultExpiration, onEvicted, janitor, nextTick, now, calls, ops>>

\* ---- Replace, lines 92-102
ReplaceLock(t, k, v, d) ==
  /\ Starts(t)
  /\ CanLock
  /\ mu' = [mu EXCEPT !.writer = t]
  /\ loc' = [loc EXCEPT ![t] = [NoLoc EXCEPT !.key = k, !.val = v, !.d = d]]
  /\ pc' = [pc EXCEPT ![t] = "ReplaceCheck"]
  /\ ops' = ops + 1
  /\ UNCHANGED <<items, defaultExpiration, onEvicted, janitor, nextTick, now, ret,
                 calls, crashed>>

ReplaceCheck(t) ==
  /\ At(t, "ReplaceCheck")
  /\ IF ~get(items, loc[t].key, now)[2]
       THEN /\ UnlockThen(t, "idle")
            /\ ret' = [ret EXCEPT ![t] = [NoRet EXCEPT !.op = "Replace",
                                           !.key = loc[t].key, !.val = loc[t].val,
                                           !.err = ErrNotFound]]
            /\ loc' = [loc EXCEPT ![t] = NoLoc]
       ELSE /\ pc' = [pc EXCEPT ![t] = "ReplaceSet"]
            /\ UNCHANGED <<mu, crashed, ret, loc>>
  /\ UNCHANGED <<items, defaultExpiration, onEvicted, janitor, nextTick, now, calls, ops>>

ReplaceSet(t) ==
  /\ At(t, "ReplaceSet")
  /\ items' = Put(items, loc[t].key,
                  Item(loc[t].val, ExpirationOf(loc[t].d, defaultExpiration, now)))
  /\ UnlockThen(t, "idle")
  /\ ret' = [ret EXCEPT ![t] = [NoRet EXCEPT !.op = "Replace", !.key = loc[t].key,
                                 !.val = loc[t].val]]
  /\ loc' = [loc EXCEPT ![t] = NoLoc]
  /\ UNCHANGED <<defaultExpiration, onEvicted, janitor, nextTick, now, calls, ops>>

\* ---- Get, lines 104-115
GetRLock(t, k) ==
  /\ Starts(t)
  /\ CanRLock
  /\ mu' = [mu EXCEPT !.readers = @ \cup {t}]
  /\ loc' = [loc EXCEPT ![t] = [NoLoc EXCEPT !.key = k]]
  /\ pc' = [pc EXCEPT ![t] = "GetRead"]
  /\ ops' = ops + 1
  /\ UNCHANGED <<items, defaultExpiration, onEvicted, janitor, nextTick, now, ret,
                 calls, crashed>>

GetRead(t) ==
  /\ At(t, "GetRead")
  /\ LET k == loc[t].key
         found == k \in DOMAIN items /\ ~Expired(items[k], now)
     IN ret' = [ret EXCEPT ![t] = [NoRet EXCEPT !.op = "Get", !.key = k,
                                    !.val = IF found THEN items[k].Object ELSE Nil,
                                    !.found = found]]
  /\ mu' = [mu EXCEPT !.readers = @ \ {t}]
  /\ pc' = [pc EXCEPT ![t] = "idle"]
  /\ loc' = [loc EXCEPT ![t] = NoLoc]
  /\ UNCHANGED <<items, defaultExpiration, onEvicted, janitor, nextTick, now, calls,
                 crashed, ops>>

\* ---- Increment and Decrement, lines 158-242
\* conversion of an int64 to int8, and int8 addition: both wrap modulo 2^8
ToInt8(n) == ((n + 128) % 256) - 128

Numeric(obj) == obj.kind = "int8"

\* the switch of lines 165-194 (sign 1) and 208-238 (sign -1) on a numeric value
Plus(obj, sign, n) == Int8(ToInt8(obj.n + sign * ToInt8(n)))

IncrementLock(t, k, n) ==
  /\ Starts(t)
  /\ CanLock
  /\ mu' = [mu EXCEPT !.writer = t]
  /\ loc' = [loc EXCEPT ![t] = [NoLoc EXCEPT !.key = k, !.d = n]]
  /\ pc' = [pc EXCEPT ![t] = "IncrementCheck"]
  /\ ops' = ops + 1
  /\ UNCHANGED <<items, defaultExpiration, onEvicted, janitor, nextTick, now, ret,
                 calls, crashed>>

\* lines 160-194: both failure branches return with the lock still locked
IncrementCheck(t) ==
  /\ At(t, "IncrementCheck")
  /\ LET k == loc[t].key IN
       IF k \notin DOMAIN items \/ Expired(items[k], now)
         THEN /\ pc' = [pc EXCEPT ![t] = "idle"]
              /\ ret' = [ret EXCEPT ![t] = [NoRet EXCEPT !.op = "Increment", !.key = k,
                                             !.err = ErrNotFound]]
              /\ loc' = [loc EXCEPT ![t] = NoLoc]
       ELSE IF ~Numeric(items[k].Object)
         THEN /\ pc' = [pc EXCEPT ![t] = "idle"]
              /\ ret' = [ret EXCEPT ![t] = [NoRet EXCEPT !.op = "Increment", !.key = k,
                                             !.err = ErrNotNumeric]]
              /\ loc' = [loc EXCEPT ![t] = NoLoc]
       ELSE /\ pc' = [pc EXCEPT ![t] = "IncrementWrite"]
            /\ loc' = [loc EXCEPT ![t].val = Plus(items[k].Object, 1, loc[t].d),
                                  ![t].e = items[k].Expiration]
            /\ ret' = ret
  /\ UNCHANGED <<items, defaultExpiration, mu, onEvicted, janitor, nextTick, now, calls,
                 crashed, ops>>

\* lines 196-198
IncrementWrite(t) ==
  /\ At(t, "IncrementWrite")
  /\ items' = Put(items, loc[t].key, Item(loc[t].val, loc[t].e))
  /\ UnlockThen(t, "idle")
  /\ ret' = [ret EXCEPT ![t] = [NoRet EXCEPT !.op = "Increment", !.key = loc[t].key,
                                 !.val = loc[t].val]]
  /\ loc' = [loc EXCEPT ![t] = NoLoc]
  /\ UNCHANGED <<defaultExpiration, onEvicted, janitor, nextTick, now, calls, ops>>

DecrementLock(t, k, n) ==
  /\ Starts(t)
  /\ CanLock
  /\ mu' = [mu EXCEPT !.writer = t]
  /\ loc' = [loc EXCEPT ![t] = [NoLoc EXCEPT !.key = k, !.d = n]]
  /\ pc' = [pc EXCEPT ![t] = "DecrementCheck"]
  /\ ops' = ops + 1
  /\ UNCHANGED <<items, defaultExpiration, onEvicted, janitor, nextTick, now, ret,
                 calls, crashed>>

\* lines 203-238: both failure branches unlock before they return
DecrementCheck(t) ==
  /\ At(t, "DecrementCheck")
  /\ LET k == loc[t].key IN
       IF k \notin DOMAIN items \/ Expired(items[k], now)
         THEN /\ UnlockThen(t, "idle")
              /\ ret' = [ret EXCEPT ![t] = [NoRet EXCEPT !.op = "Decrement", !.key = k,
                                             !.err = ErrNotFound]]
              /\ loc' = [loc EXCEPT ![t] = NoLoc]
       ELSE IF ~Numeric(items[k].Object)
         THEN /\ UnlockThen(t, "idle")
              /\ ret' = [ret EXCEPT ![t] = [NoRet EXCEPT !.op = "Decrement", !.key = k,
                                             !.err = ErrNotNumeric]]
              /\ loc' = [loc EXCEPT ![t] = NoLoc]
       ELSE /\ pc' = [pc EXCEPT ![t] = "DecrementWrite"]
            /\ loc' = [loc EXCEPT ![t].val = Plus(items[k].Object, -1, loc[t].d),
                                  ![t].e = items[k].Expiration]
            /\ UNCHANGED <<mu, crashed, ret>>
  /\ UNCHANGED <<items, defaultExpiration, onEvicted, janitor, nextTick, now, calls, ops>>

\* lines 239-241
DecrementWrite(t) ==
  /\ At(t, "DecrementWrite")
  /\ items' = Put(items, loc[t].key, Item(loc[t].val, loc[t].e))
  /\ UnlockThen(t, "idle")
  /\ ret' = [ret EXCEPT ![t] = [NoRet EXCEPT !.op = "Decrement", !.key = loc[t].key,
                                 !.val = loc[t].val]]
  /\ loc' = [loc EXCEPT ![t] = NoLoc]
  /\ UNCHANGED <<defaultExpiration, onEvicted, janitor, nextTick, now, calls, ops>>

\* ---- the eviction callback
KeyAndValue(k, v) == [key |-> k, value |-> v]

\* c.onEvicted(k, v), lines 250 and 287, by goroutine t which then continues at p
\* with locals l: calling a nil func panics; f records the call; g records it and
\* calls c.Set(k, v, NoExpiration)
Invoke(t, k, v, p, l) ==
  IF onEvicted = NilFunc
    THEN /\ crashed' = TRUE
         /\ pc' = [pc EXCEPT ![t] = "fatal"]
         /\ loc' = [loc EXCEPT ![t] = l]
         /\ calls' = calls
    ELSE /\ crashed' = crashed
         /\ calls' = Append(calls, [cb |-> onEvicted, key |-> k, value |-> v, by |-> t])
         /\ IF onEvicted = "g"
              THEN /\ pc' = [pc EXCEPT ![t] = "SetLock"]
                   /\ loc' = [loc EXCEPT ![t] =
                                [l EXCEPT !.key = k, !.val = v, !.d = NoExpiration,
                                   !.e = ExpirationOf(NoExpiration, defaultExpiration, now),
                                   !.cont = p]]
              ELSE /\ pc' = [pc EXCEPT ![t] = p]
                   /\ loc' = [loc EXCEPT ![t] = IF p = Home(t) THEN NoLoc ELSE l]

\* ---- Delete, lines 244-252
DeleteLock(t, k) ==
  /\ Starts(t)
  /\ CanLock
  /\ mu' = [mu EXCEPT !.writer = t]
  /\ loc' = [loc EXCEPT ![t] = [NoLoc EXCEPT !.key = k]]
  /\ pc' = [pc EXCEPT ![t] = "DeleteBody"]
  /\ ops' = ops + 1
  /\ UNCHANGED <<items, defaultExpiration, onEvicted, janitor, nextTick, now, ret,
                 calls, crashed>>

\* DeleteBody without the Unlock of line 247: the callback would run under the lock
DeleteBodyLocked(t) ==
  /\ At(t, "DeleteBody")
  /\ LET r == delete(items, onEvicted, loc[t].key) IN
       /\ items' = r.items
       /\ loc' = [loc EXCEPT ![t].evicted =
                    IF r.evicted THEN {KeyAndValue(loc[t].key, r.v)} ELSE {},
                                  ![t].f = onEvicted]
  /\ pc' = [pc EXCEPT ![t] = "DeleteNotify"]
  /\ UNCHANGED <<defaultExpiration, mu, onEvicted, janitor, nextTick, now, ret, calls,
                 crashed, ops>>

\* lines 246-247; f keeps the c.onEvicted that c.delete read under the lock, line 255
DeleteBody(t) ==
  /\ At(t, "DeleteBody")
  /\ LET r == delete(items, onEvicted, loc[t].key) IN
       /\ items' = r.items
       /\ loc' = [loc EXCEPT ![t].evicted =
                    IF r.evicted THEN {KeyAndValue(loc[t].key, r.v)} ELSE {},
                                  ![t].f = onEvicted]
  /\ UnlockThen(t, "DeleteNotify")
  /\ UNCHANGED <<defaultExpiration, onEvicted, janitor, nextTick, now, ret, calls, ops>>

\* lines 249-251
DeleteNotify(t) ==
  /\ At(t, "DeleteNotify")
  /\ ret' = [ret EXCEPT ![t] = NoRet]
  /\ IF loc[t].evicted = {}
       THEN /\ pc' = [pc EXCEPT ![t] = "idle"]
            /\ loc' = [loc EXCEPT ![t] = NoLoc]
            /\ UNCHANGED <<calls, crashed>>
       ELSE \E kv \in loc[t].evicted : Invoke(t, kv.key, kv.value, "idle", NoLoc)
  /\ UNCHANGED <<items, defaultExpiration, mu, onEvicted, janitor, nextTick, now, ops>>

\* ---- DeleteExpired, lines 271-289
DeleteExpiredCall(t) ==
  /\ Starts(t)
  /\ loc' = [loc EXCEPT ![t] = NoLoc]
  /\ pc' = [pc EXCEPT ![t] = "DeleteExpired"]
  /\ ops' = ops + 1
  /\ UNCHANGED <<items, defaultExpiration, mu, onEvicted, janitor, nextTick, now, ret,
                 calls, crashed>>

\* lines 273-274: Lock, and the deferred Unlock is registered
DeleteExpiredLock(t) ==
  /\ At(t, "DeleteExpired")
  /\ CanLock
  /\ mu' = [mu EXCEPT !.writer = t]
  /\ pc' = [pc EXCEPT ![t] = "DeleteExpiredScan"]
  /\ UNCHANGED <<items, defaultExpiration, onEvicted, janitor, nextTick, now, loc, ret,
                 calls, crashed, ops>>

\* lines 276-285: the loop over the map, then the explicit Unlock
DeleteExpiredScan(t) ==
  /\ At(t, "DeleteExpiredScan")
  /\ LET E == {k \in DOMAIN items : Expired(items[k], now)} IN
       /\ items' = Without(items, E)
       /\ loc' = [loc EXCEPT ![t].evicted =
                    {KeyAndValue(k, delete(items, onEvicted, k).v) :
                       k \in {x \in E : delete(items, onEvicted, x).evicted}},
                                  ![t].f = onEvicted]
  /\ UnlockThen(t, "DeleteExpiredNotify")
  /\ UNCHANGED <<defaultExpiration, onEvicted, janitor, nextTick, now, ret, calls, ops>>

\* lines 286-288: one iteration of the loop over evictedItems, in map order
DeleteExpiredNotify(t) ==
  /\ At(t, "DeleteExpiredNotify")
  /\ loc[t].evicted # {}
  /\ \E kv \in loc[t].evicted :
       Invoke(t, kv.key, kv.value, "DeleteExpiredNotify",
              [loc[t] EXCEPT !.evicted = @ \ {kv}])
  /\ UNCHANGED <<items, defaultExpiration, mu, onEvicted, janitor, nextTick, now, ret, ops>>

\* line 289: the function returns and the deferred Unlock of line 274 runs
DeleteExpiredReturn(t) ==
  /\ At(t, "DeleteExpiredNotify")
  /\ loc[t].evicted = {}
  /\ UnlockThen(t, Home(t))
  /\ loc' = [loc EXCEPT ![t] = NoLoc]
  /\ ret' = Result(t, NoRet)
  /\ UNCHANGED <<items, defaultExpiration, onEvicted, janitor, nextTick, now, calls, ops>>

\* ---- OnEvicted, lines 291-295
\* OnEvictedSet that keeps a callback already registered
OnEvictedSetOnce(t) ==
  /\ At(t, "OnEvictedSet")
  /\ onEvicted' = IF onEvicted = NilFunc THEN loc[t].f ELSE onEvicted
  /\ UnlockThen(t, "idle")
  /\ ret' = [ret EXCEPT ![t] = NoRet]
  /\ loc' = [loc EXCEPT ![t] = NoLoc]
  /\ UNCHANGED <<items, defaultExpiration, janitor, nextTick, now, calls, ops>>

OnEvictedLock(t, f) ==
  /\ Starts(t)
  /\ CanLock
  /\ mu' = [mu EXCEPT !.writer = t]
  /\ loc' = [loc EXCEPT ![t] = [NoLoc EXCEPT !.f = f]]
  /\ pc' = [pc EXCEPT ![t] = "OnEvictedSet"]
  /\ ops' = ops + 1
  /\ UNCHANGED <<items, defaultExpiration, onEvicted, janitor, nextTick, now, ret,
                 calls, crashed>>

OnEvictedSet(t) ==
  /\ At(t, "OnEvictedSet")
  /\ onEvicted' = loc[t].f
  /\ UnlockThen(t, "idle")
  /\ ret' = [ret EXCEPT ![t] = NoRet]
  /\ loc' = [loc EXCEPT ![t] = NoLoc]
  /\ UNCHANGED <<items, defaultExpiration, janitor, nextTick, now, calls, ops>>

\* ---- Flush, lines 336-340
FlushLock(t) ==
  /\ Starts(t)
  /\ CanLock
  /\ mu' = [mu EXCEPT !.writer = t]
  /\ loc' = [loc EXCEPT ![t] = NoLoc]
  /\ pc' = [pc EXCEPT ![t] = "FlushBody"]
  /\ ops' = ops + 1
  /\ UNCHANGED <<items, defaultExpiration, onEvicted, janitor, nextTick, now, ret,
                 calls, crashed>>

\* FlushBody that reports every entry it clears to the callback
FlushBodyNotifying(t) ==
  /\ At(t, "FlushBody")
  /\ items' = NoMap
  /\ calls' = IF onEvicted # NilFunc /\ DOMAIN items # {}
                THEN LET k == CHOOSE x \in DOMAIN items : TRUE
                     IN Append(calls, [cb |-> onEvicted, key |-> k,
                                       value |-> items[k].Object, by |-> t])
                ELSE calls
  /\ UnlockThen(t, "idle")
  /\ ret' = [ret EXCEPT ![t] = NoRet]
  /\ loc' = [loc EXCEPT ![t] = NoLoc]
  /\ UNCHANGED <<defaultExpiration, onEvicted, janitor, nextTick, now, ops>>

FlushBody(t) ==
  /\ At(t, "FlushBody")
  /\ items' = NoMap
  /\ UnlockThen(t, "idle")
  /\ ret' = [ret EXCEPT ![t] = NoRet]
  /\ loc' = [loc EXCEPT ![t] = NoLoc]
  /\ UNCHANGED <<defaultExpiration, onEvicted, janitor, nextTick, now, calls, ops>>

\* ---- janitor.Run, lines 347-359: a tick of the ticker calls DeleteExpired
JanitorTick ==
  /\ At(Jan, "select")
  /\ now >= nextTick
  /\ nextTick' = nextTick + janitor.Interval
  /\ pc' = [pc EXCEPT ![Jan] = "DeleteExpired"]
  /\ UNCHANGED <<items, defaultExpiration, mu, onEvicted, janitor, now, loc, ret, calls,
                 crashed, ops>>

\* time passes
Tick ==
  /\ ~crashed
  /\ now < MaxTime
  /\ now' = now + 1
  /\ UNCHANGED <<items, defaultExpiration, mu, onEvicted, janitor, nextTick, pc, loc,
                 ret, calls, crashed, ops>>

\* ---- Items, lines 316-328
ItemsRLock(t) ==
  /\ Starts(t)
  /\ CanRLock
  /\ mu' = [mu EXCEPT !.readers = @ \cup {t}]
  /\ loc' = [loc EXCEPT ![t] = NoLoc]
  /\ pc' = [pc EXCEPT ![t] = "ItemsRead"]
  /\ ops' = ops + 1
  /\ UNCHANGED <<items, defaultExpiration, onEvicted, janitor, nextTick, now, ret,
                 calls, crashed>>

\* the entries Items copies, lines 321-325
Unexpired(its, t) == Without(its, {k \in DOMAIN its : Expired(its[k], t)})

\* ItemsRead that returns the Store's own map instead of a filtered copy
ItemsReadOwnMap(t) ==
  /\ At(t, "ItemsRead")
  /\ ret' = [ret EXCEPT ![t] = [NoRet EXCEPT !.op = "Items", !.m = items, !.shared = TRUE]]
  /\ mu' = [mu EXCEPT !.readers = @ \ {t}]
  /\ pc' = [pc EXCEPT ![t] = "idle"]
  /\ loc' = [loc EXCEPT ![t] = NoLoc]
  /\ UNCHANGED <<items, defaultExpiration, onEvicted, janitor, nextTick, now, calls,
                 crashed, ops>>

\* lines 319-327: a new map is made and filled, and the deferred RUnlock runs
ItemsRead(t) ==
  /\ At(t, "ItemsRead")
  /\ ret' = [ret EXCEPT ![t] = [NoRet EXCEPT !.op = "Items", !.m = Unexpired(items, now)]]
  /\ mu' = [mu EXCEPT !.readers = @ \ {t}]
  /\ pc' = [pc EXCEPT ![t] = "idle"]
  /\ loc' = [loc EXCEPT ![t] = NoLoc]
  /\ UNCHANGED <<items, defaultExpiration, onEvicted, janitor, nextTick, now, calls,
                 crashed, ops>>

\* what the caller does to the mapping it was given: it removes a key or binds one
Mutated(m, k, remove) == IF remove THEN Without(m, {k}) ELSE Put(m, k, Item(Str, 0))

\* the caller changes the mapping Items returned, once: the Store's map changes
\* with it only when the two are one map object
MutateCopy(t, k, remove) ==
  /\ ~crashed
  /\ t \in Callers
  /\ pc[t] = "idle"
  /\ ret[t].op = "Items"
  /\ ret' = [ret EXCEPT ![t].op = "ItemsMutated", ![t].m = Mutated(@, k, remove)]
  /\ items' = IF ret[t].shared THEN Mutated(items, k, remove) ELSE items
  /\ UNCHANGED <<defaultExpiration, mu, onEvicted, janitor, nextTick, now, pc, loc, calls,
                 crashed, ops>>

\* ---- ItemCount, lines 330-334
ItemCountRLock(t) ==
  /\ Starts(t)
  /\ CanRLock
  /\ mu' = [mu EXCEPT !.readers = @ \cup {t}]
  /\ loc' = [loc EXCEPT ![t] = NoLoc]
  /\ pc' = [pc EXCEPT ![t] = "ItemCountRead"]
  /\ ops' = ops + 1
  /\ UNCHANGED <<items, defaultExpiration, onEvicted, janitor, nextTick, now, ret,
                 calls, crashed>>

\* ItemCountRead that counts the unexpired entries only
ItemCountReadUnexpired(t) ==
  /\ At(t, "ItemCountRead")
  /\ ret' = [ret EXCEPT ![t] = [NoRet EXCEPT !.op = "ItemCount",
                                 !.n = Cardinality(DOMAIN Unexpired(items, now))]]
  /\ mu' = [mu EXCEPT !.readers = @ \ {t}]
  /\ pc' = [pc EXCEPT ![t] = "idle"]
  /\ loc' = [loc EXCEPT ![t] = NoLoc]
  /\ UNCHANGED <<items, defaultExpiration, onEvicted, janitor, nextTick, now, calls,
                 crashed, ops>>

\* line 333: len(c.items), and the deferred RUnlock runs
ItemCountRead(t) ==
  /\ At(t, "ItemCountRead")
  /\ ret' = [ret EXCEPT ![t] = [NoRet EXCEPT !.op = "ItemCount",
                                 !.n = Cardinality(DOMAIN items)]]
  /\ mu' = [mu EXCEPT !.readers = @ \ {t}]
  /\ pc' = [pc EXCEPT ![t] = "idle"]
  /\ loc' = [loc EXCEPT ![t] = NoLoc]
  /\ UNCHANGED <<items, defaultExpiration, onEvicted, janitor, nextTick, now, calls,
                 crashed, ops>>

\* ---- StopJanitor, lines 361-363, and the stop case of janitor.Run, lines 354-356
StopJanitorCall(t) ==
  /\ Starts(t)
  /\ loc' = [loc EXCEPT ![t] = NoLoc]
  /\ pc' = [pc EXCEPT ![t] = "StopJanitor"]
  /\ ops' = ops + 1
  /\ UNCHANGED <<items, defaultExpiration, mu, onEvicted, janitor, nextTick, now, ret,
                 calls, crashed>>

\* StopJanitorSend after which the janitor stays in its loop
StopJanitorSendNoExit(t) ==
  /\ At(t, "StopJanitor")
  /\ janitor.exists /\ pc[Jan] = "select"
  /\ pc' = [pc EXCEPT ![t] = "idle"]
  /\ ret' = [ret EXCEPT ![t] = [NoRet EXCEPT !.op = "StopJanitor"]]
  /\ UNCHANGED <<items, defaultExpiration, mu, onEvicted, janitor, nextTick, now, loc,
                 calls, crashed, ops>>

\* line 362: c.janitor.stop <- true. Without a janitor c.janitor is nil and the
\* dereference panics; with one, the send on the unbuffered channel completes
\* when the janitor receives in its select, stops the ticker and returns; while
\* the janitor is elsewhere, or has returned, the send blocks
StopJanitorSend(t) ==
  /\ At(t, "StopJanitor")
  /\ IF ~janitor.exists
       THEN /\ crashed' = TRUE
            /\ pc' = [pc EXCEPT ![t] = "fatal"]
            /\ ret' = ret
       ELSE /\ pc[Jan] = "select"
            /\ pc' = [pc EXCEPT ![t] = "idle", ![Jan] = "stopped"]
            /\ ret' = [ret EXCEPT ![t] = [NoRet EXCEPT !.op = "StopJanitor"]]
            /\ crashed' = crashed
  /\ UNCHANGED <<items, defaultExpiration, mu, onEvicted, janitor, nextTick, now, loc,
                 calls, ops>>

\* ---- GetWithExpiration, lines 117-139
GetWithExpirationRLock(t, k) ==
  /\ Starts(t)
  /\ CanRLock
  /\ mu' = [mu EXCEPT !.readers = @ \cup {t}]
  /\ loc' = [loc EXCEPT ![t] = [NoLoc EXCEPT !.key = k]]
  /\ pc' = [pc EXCEPT ![t] = "GetWithExpirationRead"]
  /\ ops' = ops + 1
  /\ UNCHANGED <<items, defaultExpiration, onEvicted, janitor, nextTick, now, ret,
                 calls, crashed>>

\* lines 119-138: not found when the key is absent, or when its Expiration is
\* positive and has passed; found otherwise, with the expiration time when positive
GetWithExpirationRead(t) ==
  /\ At(t, "GetWithExpirationRead")
  /\ LET k == loc[t].key
         found == /\ k \in DOMAIN items
                  /\ ~(items[k].Expiration > 0 /\ now > items[k].Expiration)
     IN ret' = [ret EXCEPT ![t] =
                  [NoRet EXCEPT !.op = "GetWithExpiration", !.key = k,
                                !.val = IF found THEN items[k].Object ELSE Nil,
                                !.n = IF found /\ items[k].Expiration > 0
                                        THEN items[k].Expiration ELSE 0,
                                !.found = found]]
  /\ mu' = [mu EXCEPT !.readers = @ \ {t}]
  /\ pc' = [pc EXCEPT ![t] = "idle"]
  /\ loc' = [loc EXCEPT ![t] = NoLoc]
  /\ UNCHANGED <<items, defaultExpiration, onEvicted, janitor, nextTick, now, calls,
                 crashed, ops>>

\* ---- the specifications: the goroutines of one scenario each
\* the janitor goroutine and the clock
Background ==
  \/ Tick
  \/ JanitorTick
  \/ DeleteExpiredLock(Jan)
  \/ DeleteExpiredScan(Jan)
  \/ DeleteExpiredReturn(Jan)

\* callers that write with a TTL, read and sweep
NextTTL ==
  \/ Background
  \/ \E t \in Callers :
       \/ \E k \in Keys : \E v \in Objects : \E d \in Durations : SetCall(t, k, v, d)
       \/ SetLock(t) \/ SetWrite(t)
       \/ \E k \in Keys : GetRLock(t, k)
       \/ GetRead(t)
       \/ DeleteExpiredCall(t)
       \/ DeleteExpiredLock(t) \/ DeleteExpiredScan(t) \/ DeleteExpiredReturn(t)

SpecTTL == InitNew /\ [][NextTTL]_vars

\* callers that add, replace, read and delete
NextKV ==
  \/ Background
  \/ \E t \in Callers :
       \/ \E k \in Keys : \E v \in Objects : \E d \in Durations :
            AddLock(t, k, v, d) \/ ReplaceLock(t, k, v, d)
       \/ AddCheck(t) \/ AddSet(t)
       \/ ReplaceCheck(t) \/ ReplaceSet(t)
       \/ \E k \in Keys : GetRLock(t, k) \/ DeleteLock(t, k)
       \/ GetRead(t)
       \/ DeleteBody(t) \/ DeleteNotify(t)

SpecKV == InitFrom /\ [][NextKV]_vars

\* callers that set, increment and decrement
NextNum ==
  \/ Background
  \/ \E t \in Callers :
       \/ \E k \in Keys : \E v \in Objects : \E d \in Durations : SetCall(t, k, v, d)
       \/ SetLock(t) \/ SetWrite(t)
       \/ \E k \in Keys : \E n \in Deltas : IncrementLock(t, k, n) \/ DecrementLock(t, k, n)
       \/ IncrementCheck(t) \/ IncrementWrite(t)
       \/ DecrementCheck(t) \/ DecrementWrite(t)

SpecNum == InitFrom /\ [][NextNum]_vars

\* callers that register callbacks, delete and sweep, with the janitor notifying
NextEvict ==
  \/ Background
  \/ DeleteExpiredNotify(Jan)
  \/ SetLock(Jan) \/ SetWrite(Jan)
  \/ \E t \in Callers :
       \/ \E f \in Callbacks \cup {NilFunc} : OnEvictedLock(t, f)
       \/ OnEvictedSet(t)
       \/ \E k \in Keys : DeleteLock(t, k)
       \/ DeleteBody(t) \/ DeleteNotify(t)
       \/ DeleteExpiredCall(t)
       \/ DeleteExpiredLock(t) \/ DeleteExpiredScan(t)
       \/ DeleteExpiredNotify(t) \/ DeleteExpiredReturn(t)
       \/ SetLock(t) \/ SetWrite(t)

SpecEvict == InitEvict /\ [][NextEvict]_vars

\* callers that flush, overwrite, add and replace while a callback is registered
NextSilent ==
  \/ Background
  \/ DeleteExpiredNotify(Jan)
  \/ SetLock(Jan) \/ SetWrite(Jan)
  \/ \E t \in Callers :
       \/ \E k \in Keys : \E v \in {Str} : \E d \in {NoExpiration} :
            SetCall(t, k, v, d) \/ AddLock(t, k, v, d) \/ ReplaceLock(t, k, v, d)
       \/ SetLock(t) \/ SetWrite(t)
       \/ AddCheck(t) \/ AddSet(t)
       \/ ReplaceCheck(t) \/ ReplaceSet(t)
       \/ FlushLock(t) \/ FlushBody(t)

SpecSilent == InitEvict /\ [][NextSilent]_vars

\* NewFrom with a non-positive cleanup interval: no janitor is created
NoJanitorIntervals == {0, -1}

InitLazy ==
  \E d \in DefaultDurations : \E i \in NoJanitorIntervals : \E m \in InitialItems :
    Constructed(d, i, m, NilFunc)

\* callers that read, list, count and remove on a Store without a janitor
NextLazy ==
  \/ Tick
  \/ \E t \in Callers :
       \/ \E k \in Keys : GetRLock(t, k) \/ DeleteLock(t, k)
       \/ GetRead(t)
       \/ DeleteBody(t) \/ DeleteNotify(t)
       \/ ItemsRLock(t) \/ ItemsRead(t)
       \/ \E k \in Keys : \E remove \in BOOLEAN : MutateCopy(t, k, remove)
       \/ ItemCountRLock(t) \/ ItemCountRead(t)
       \/ DeleteExpiredCall(t)
       \/ DeleteExpiredLock(t) \/ DeleteExpiredScan(t) \/ DeleteExpiredReturn(t)
       \/ FlushLock(t) \/ FlushBody(t)

SpecLazy == InitLazy /\ [][NextLazy]_vars

\* callers that stop the janitor and read
NextStop ==
  \/ Background
  \/ \E t \in Callers :
       \/ StopJanitorCall(t) \/ StopJanitorSend(t)
       \/ \E k \in Keys : GetRLock(t, k)
       \/ GetRead(t)

SpecStop == InitFrom /\ [][NextStop]_vars

\* NewFrom, then OnEvicted("f") before any other goroutine runs
InitReplace ==
  \E d \in DefaultDurations : \E i \in Intervals : \E m \in InitialItems :
    Constructed(d, i, m, "f")

SpecReplace == InitReplace /\ [][NextEvict]_vars

\* the maps NewFrom is given, with a zero, a positive and a negative Expiration
AnyItems == {[k \in {"a"} |-> Item(Int8(10), e)] : e \in {-1, 0, 1}}

InitAny ==
  \E d \in DefaultDurations : \E i \in NoJanitorIntervals : \E m \in AnyItems :
    Constructed(d, i, m, NilFunc)

\* callers that ask, each operation in its way, whether a key is live
NextAgree ==
  \/ Tick
  \/ \E t \in Callers :
       \/ \E k \in Keys : GetRLock(t, k) \/ GetWithExpirationRLock(t, k)
       \/ GetRead(t) \/ GetWithExpirationRead(t)
       \/ \E k \in Keys : \E v \in {Str} : \E d \in {NoExpiration, 1} :
            AddLock(t, k, v, d) \/ ReplaceLock(t, k, v, d)
       \/ AddCheck(t) \/ AddSet(t)
       \/ ReplaceCheck(t) \/ ReplaceSet(t)
       \/ ItemsRLock(t) \/ ItemsRead(t)

SpecAgree == InitAny /\ [][NextAgree]_vars

\* ---- what the claims say

\* an entry that is in the map and not expired at time t: expiresAt = 0 never
\* expires, any other entry is expired iff t > expiresAt
Live(its, k, t) ==
  /\ k \in DOMAIN its
  /\ (its[k].Expiration = 0 \/ t <= its[k].Expiration)

\* goroutine t takes the step that leaves position p
Leaves(t, p) == pc[t] = p /\ pc'[t] # p

\* C1: when Increment or Decrement has returned, with success, KeyNotFound or
\* NotNumeric, the returning caller no longer holds the write lock
C1_LockReleasedOnReturn ==
  \A t \in Callers :
    (pc[t] = "idle" /\ ret[t].op \in {"Increment", "Decrement"}) => mu.writer # t

\* caller u's last operation was a successful Add on k, and its entry is still
\* the live entry of k
WonAdd(u, k) ==
  /\ ret[u].op = "Add" /\ ret[u].err = ErrNone /\ ret[u].key = k
  /\ Live(items, k, now)
  /\ items[k].Object = ret[u].val

\* C2: of the callers that Add the same key, one succeeds: no Add inserts and
\* returns success while another caller's successful Add of that key stands
C2_OneAddSucceeds ==
  [][\A t \in Callers :
       Leaves(t, "AddSet") =>
         ~(\E u \in Callers \ {t} : WonAdd(u, loc[t].key))]_vars

\* C3: Add inserts iff the key is absent or expired; on a live key it returns
\* KeyAlreadyExists and leaves the map as it was
C3_AddOnlyIfAbsent ==
  [][\A t \in Callers :
       /\ Leaves(t, "AddSet") => ~Live(items, loc[t].key, now)
       /\ Leaves(t, "AddCheck") =>
            IF Live(items, loc[t].key, now)
              THEN /\ pc'[t] # "AddSet"
                   /\ ret'[t].op = "Add" /\ ret'[t].err = ErrExists
                   /\ items' = items
              ELSE pc'[t] = "AddSet"]_vars

\* C4: Replace overwrites iff the key is present and unexpired (it writes only
\* over the entry it found); otherwise it returns KeyNotFound and leaves the map
\* as it was
C4_ReplaceOnlyIfPresent ==
  [][\A t \in Callers :
       /\ Leaves(t, "ReplaceSet") => loc[t].key \in DOMAIN items
       /\ Leaves(t, "ReplaceCheck") =>
            IF Live(items, loc[t].key, now)
              THEN pc'[t] = "ReplaceSet"
              ELSE /\ pc'[t] # "ReplaceSet"
                   /\ ret'[t].op = "Replace" /\ ret'[t].err = ErrNotFound
                   /\ items' = items]_vars

\* C5: an entry written by Set with ttl > 0 at time t carries expiresAt = t + ttl,
\* and Get at time now returns its value iff now <= expiresAt; Get of a key with
\* no entry returns not-found
C5_GetUntilDeadline ==
  [][\A t \in Callers :
       /\ (pc[t] = "idle" /\ pc'[t] = "SetLock" /\ loc'[t].d > 0) =>
            loc'[t].e = now + loc'[t].d
       /\ Leaves(t, "SetWrite") =>
            /\ loc[t].key \in DOMAIN items'
            /\ items'[loc[t].key] = Item(loc[t].val, loc[t].e)
       /\ Leaves(t, "GetRead") =>
            LET k == loc[t].key IN
              /\ ret'[t].op = "Get" /\ ret'[t].key = k
              /\ IF k \in DOMAIN items /\ (items[k].Expiration = 0 \/ now <= items[k].Expiration)
                   THEN ret'[t].found /\ ret'[t].val = items[k].Object
                   ELSE ~ret'[t].found /\ ret'[t].val = Nil]_vars

\* Get has returned not-found for an entry with a deadline that has passed
C5_Witness ==
  \E t \in Callers :
    /\ pc[t] = "idle" /\ ret[t].op = "Get" /\ ~ret[t].found
    /\ ret[t].key \in DOMAIN items
    /\ items[ret[t].key].Expiration > 0
    /\ now > items[ret[t].key].Expiration

\* C6: Set with a negative ttl, or with the zero ttl on a Store whose default is
\* negative, stores expiresAt = 0; such an entry stays as it is through every
\* step but a write of its key, sweeps included, and Get returns its value at
\* any time
C6_NeverExpires ==
  [][/\ \A t \in Callers :
          /\ ( /\ pc[t] = "idle" /\ pc'[t] = "SetLock"
               /\ \/ loc'[t].d < 0
                  \/ loc'[t].d = DefaultExpiration /\ defaultExpiration < 0 ) =>
               loc'[t].e = 0
          /\ Leaves(t, "SetWrite") => items'[loc[t].key].Expiration = loc[t].e
          /\ ( /\ Leaves(t, "GetRead")
               /\ loc[t].key \in DOMAIN items
               /\ items[loc[t].key].Expiration = 0 ) =>
               ret'[t].found /\ ret'[t].val = items[loc[t].key].Object
     /\ \A k \in DOMAIN items :
          ( /\ items[k].Expiration = 0
            /\ ~(\E t \in Callers : Leaves(t, "SetWrite") /\ loc[t].key = k) ) =>
            k \in DOMAIN items' /\ items'[k] = items[k]]_vars

\* at the last clock time, after the janitor's sweep has scanned the map, Get
\* has returned the value of an entry stored with expiresAt = 0
C6_Witness ==
  \E t \in Callers :
    /\ pc[t] = "idle" /\ ret[t].op = "Get" /\ ret[t].found
    /\ now = MaxTime
    /\ pc[Jan] = "DeleteExpiredNotify"
    /\ ret[t].key \in DOMAIN items
    /\ items[ret[t].key] = Item(ret[t].val, 0)

\* C7: Delete removes the key; with a callback registered and an entry found it
\* invokes the callback once with the key and the removed value, and without an
\* entry it does not invoke it
C7_DeleteNotifiesOnce ==
  [][\A t \in Callers :
       /\ Leaves(t, "DeleteBody") =>
            LET k == loc[t].key IN
              /\ k \notin DOMAIN items'
              /\ loc'[t].evicted =
                   IF onEvicted # NilFunc /\ k \in DOMAIN items
                     THEN {KeyAndValue(k, items[k].Object)} ELSE {}
       /\ Leaves(t, "DeleteNotify") =>
            IF loc[t].evicted = {}
              THEN calls' = calls
              ELSE /\ Len(calls') = Len(calls) + 1
                   /\ SubSeq(calls', 1, Len(calls)) = calls
                   /\ KeyAndValue(calls'[Len(calls')].key, calls'[Len(calls')].value)
                        \in loc[t].evicted]_vars

\* goroutine t is about to invoke the callback, or is inside callback g before
\* its Set has taken the lock
Calling(t) ==
  \/ pc[t] \in {"DeleteNotify", "DeleteExpiredNotify"} /\ loc[t].evicted # {}
  \/ pc[t] = "SetLock" /\ loc[t].cont # ""

\* C8: a goroutine that invokes the eviction callback, from Delete or from the
\* sweep, holds neither the write lock nor a read lock
C8_CallbackOutsideLock ==
  \A t \in Threads : Calling(t) => (mu.writer # t /\ t \notin mu.readers)

\* callback g, invoked by a caller's Delete, has re-entered the Store with Set and
\* returned: the evicted key is back in the map
C8_Witness ==
  \E t \in Callers :
    /\ pc[t] = "idle" /\ ~crashed
    /\ calls # <<>>
    /\ calls[Len(calls)].cb = "g" /\ calls[Len(calls)].by = t
    /\ calls[Len(calls)].key \in DOMAIN items
    /\ items[calls[Len(calls)].key] = Item(calls[Len(calls)].value, 0)

\* C9: once the janitor's sweep of a tick is over and has reclaimed an entry, the
\* sweep has returned normally to the janitor's loop (it did not end in a fatal
\* error), every entry whose deadline passed before the tick is out of the map,
\* and the janitor invoked the callback once per reclaimed key
C9_SweepEvictsAndReturns ==
  ( /\ janitor.exists
    /\ nextTick > janitor.Interval
    /\ pc[Jan] \in {"select", "fatal"}
    /\ \E i \in 1..Len(calls) : calls[i].by = Jan ) =>
    /\ pc[Jan] = "select"
    /\ \A k \in DOMAIN items :
         ~(items[k].Expiration > 0 /\ items[k].Expiration < nextTick - janitor.Interval)
    /\ \A i, j \in 1..Len(calls) :
         (calls[i].by = Jan /\ calls[j].by = Jan /\ calls[i].key = calls[j].key) => i = j

SilentPcs ==
  {"SetLock", "SetWrite", "AddCheck", "AddSet", "ReplaceCheck", "ReplaceSet", "FlushBody"}

\* C10: no step of a caller's Flush, Set, Add or Replace invokes the callback
C10_SilentOperations ==
  [][\A t \in Callers :
       (pc'[t] # pc[t] /\ (pc[t] \in SilentPcs \/ pc'[t] \in SilentPcs)) =>
         calls' = calls]_vars

\* with a callback registered, an Add has failed on a live key and a Flush has
\* then cleared the map, and the callback was never invoked
C10_Witness ==
  /\ onEvicted # NilFunc
  /\ items = NoMap
  /\ calls = <<>>
  /\ \A t \in Callers : pc[t] = "idle"
  /\ \E t \in Callers : ret[t].op = "Add" /\ ret[t].err = ErrExists

\* C11: Items returns exactly the entries that are unexpired when it is called,
\* expired entries still in the map left out, in a map of its own: a change the
\* caller makes to the returned mapping leaves the Store's entries as they were
C11_ItemsUnexpiredCopy ==
  [][\A t \in Callers :
       /\ Leaves(t, "ItemsRead") =>
            /\ ret'[t].op = "Items"
            /\ DOMAIN ret'[t].m = {k \in DOMAIN items : Live(items, k, now)}
            /\ \A k \in DOMAIN ret'[t].m : ret'[t].m[k] = items[k]
       /\ (ret[t].op = "Items" /\ ret'[t].op = "ItemsMutated") =>
            items' = items]_vars

\* Items has left out an expired entry that is still in the map, and the caller
\* has removed from the returned mapping a key that the Store still holds
C11_Witness ==
  \E t \in Callers :
    /\ ret[t].op = "ItemsMutated"
    /\ \E k \in DOMAIN items \ DOMAIN ret[t].m :
         items[k].Expiration > 0 /\ now > items[k].Expiration
    /\ \E k \in DOMAIN items \ DOMAIN ret[t].m : items[k].Expiration = 0

\* the int8 that is congruent to x modulo 2^8
Wrap8(x) == CHOOSE y \in -128..127 : (x - y) % 256 = 0

\* the step of goroutine t changes no key of the map but k
OnlyKey(k) ==
  /\ DOMAIN items' \ {k} = DOMAIN items \ {k}
  /\ \A j \in DOMAIN items \ {k} : items'[j] = items[j]

\* C12: the write of a successful Increment(k, d) replaces the stored int8 value
\* old by old + d modulo 2^8, and that of Decrement(k, d) by old - d modulo 2^8;
\* the kind of the value and the expiration of the entry stay as they were, and
\* no other key changes
C12_IncrementArithmetic ==
  [][\A t \in Callers :
       /\ Leaves(t, "IncrementWrite") =>
            LET k == loc[t].key IN
              /\ k \in DOMAIN items /\ k \in DOMAIN items'
              /\ items[k].Object.kind = "int8"
              /\ items'[k] = Item(Int8(Wrap8(items[k].Object.n + loc[t].d)),
                                  items[k].Expiration)
              /\ OnlyKey(k)
       /\ Leaves(t, "DecrementWrite") =>
            LET k == loc[t].key IN
              /\ k \in DOMAIN items /\ k \in DOMAIN items'
              /\ items[k].Object.kind = "int8"
              /\ items'[k] = Item(Int8(Wrap8(items[k].Object.n - loc[t].d)),
                                  items[k].Expiration)
              /\ OnlyKey(k)]_vars

\* C13: Increment or Decrement on a live key whose value is not numeric returns
\* NotNumeric, leaves the map as it was, and leaves the Store usable: the caller
\* returns without the write lock and the process runs
C13_NotNumericNoOp ==
  [][\A t \in Callers :
       ( /\ Leaves(t, "IncrementCheck") \/ Leaves(t, "DecrementCheck")
         /\ Live(items, loc[t].key, now)
         /\ ~Numeric(items[loc[t].key].Object) ) =>
         /\ pc'[t] = "idle"
         /\ ret'[t].err = ErrNotNumeric
         /\ items' = items
         /\ mu'.writer # t
         /\ ~crashed']_vars

\* C14: when StopJanitor's send is received the janitor's loop exits, and a
\* stopped janitor stays stopped: it takes no tick and starts no sweep, whatever
\* the clock does
C14_StoppedIsTerminal ==
  [][/\ \A t \in Callers :
          (Leaves(t, "StopJanitor") /\ pc'[t] = "idle") => pc'[Jan] = "stopped"
     /\ pc[Jan] = "stopped" =>
          /\ pc'[Jan] = "stopped"
          /\ nextTick' = nextTick
          /\ mu'.writer # Jan
          /\ items' = items]_vars

\* the janitor is stopped, a tick is due, and an expired entry is still in the map
C14_Witness ==
  /\ pc[Jan] = "stopped"
  /\ now >= nextTick
  /\ \E k \in DOMAIN items : items[k].Expiration > 0 /\ now > items[k].Expiration

\* C20: StopJanitor returns: the step that ends a call of StopJanitor returns to
\* the caller (it does not fault), and no call is left waiting on a janitor that
\* has exited its loop and will never receive
C20_StopJanitorReturns ==
  [][\A t \in Callers :
       /\ Leaves(t, "StopJanitor") => pc'[t] = "idle"
       /\ ~(pc'[t] = "StopJanitor" /\ pc'[Jan] = "stopped")]_vars

\* goroutine t takes a step of Delete or of the sweep that notifies of a removed
\* entry
Notifies(t) ==
  /\ pc[t] \in {"DeleteNotify", "DeleteExpiredNotify"}
  /\ loc[t].evicted # {}
  /\ pc'[t] # pc[t] \/ loc'[t] # loc[t]

\* C15: OnEvicted replaces the registered callback by the one it is given, and
\* a Delete or sweep that follows the registrations invokes the callback
\* registered last, once for the removed entry, and no other
C15_ReplaceNotAppend ==
  [][\A t \in Threads :
       /\ Leaves(t, "OnEvictedSet") => onEvicted' = loc[t].f
       /\ (Notifies(t) /\ onEvicted # NilFunc /\ loc[t].f = onEvicted) =>
            \E kv \in loc[t].evicted :
              calls' = Append(calls, [cb |-> onEvicted, key |-> kv.key,
                                      value |-> kv.value, by |-> t])]_vars

\* after OnEvicted(f) and then OnEvicted(g), a caller's Delete of a present key
\* has returned, and the only invocation is one of g
C15_Witness ==
  \E t \in Callers :
    /\ ~crashed /\ pc[t] = "idle"
    /\ onEvicted = "g"
    /\ Len(calls) = 1
    /\ calls[1].cb = "g" /\ calls[1].by = t

\* C19: the callback Delete or the sweep invokes for a removed entry is the one
\* that was registered when the entry was removed under the lock, whatever
\* OnEvicted calls run meanwhile, and the invocation is never that of a nil
\* callback
C19_CallbackAsRegistered ==
  [][\A t \in Threads :
       Notifies(t) =>
         /\ pc'[t] # "fatal"
         /\ Len(calls') = Len(calls) + 1
         /\ calls'[Len(calls')].cb = loc[t].f
         /\ calls'[Len(calls')].by = t]_vars

\* the entry of k is in the map its and its deadline has passed at time t
Elapsed(its, k, t) == k \in DOMAIN its /\ its[k].Expiration > 0 /\ t > its[k].Expiration

\* C16: a Store constructed with a non-positive interval has no janitor and no
\* sweep of its own; an entry whose TTL has elapsed is not found by Get and is
\* left out by Items, while it stays in the map and ItemCount counts it, until
\* a Delete, a manual DeleteExpired or a Flush removes it
C16_LazyExpiry ==
  [][janitor.Interval <= 0 =>
       /\ ~janitor.exists /\ pc[Jan] = "none" /\ pc'[Jan] = "none"
       /\ \A k \in DOMAIN items \ DOMAIN items' :
            \E t \in Callers : \/ Leaves(t, "DeleteBody")
                               \/ Leaves(t, "DeleteExpiredScan")
                               \/ Leaves(t, "FlushBody")
       /\ \A t \in Callers :
            /\ (Leaves(t, "GetRead") /\ Elapsed(items, loc[t].key, now)) =>
                 /\ ~ret'[t].found
                 /\ items' = items
            /\ Leaves(t, "ItemsRead") =>
                 /\ \A k \in DOMAIN items : Elapsed(items, k, now) => k \notin DOMAIN ret'[t].m
                 /\ items' = items
            /\ Leaves(t, "ItemCountRead") =>
                 /\ ret'[t].op = "ItemCount"
                 /\ ret'[t].n = Cardinality(DOMAIN items)
                 /\ items' = items]_vars

\* on a Store without a janitor, Get has not found an entry whose TTL has elapsed
\* and ItemCount has counted it, the entry being still in the map
C16_Witness ==
  /\ ~janitor.exists
  /\ \E t, u \in Callers :
       /\ ret[t].op = "Get" /\ ~ret[t].found
       /\ Elapsed(items, ret[t].key, now)
       /\ ret[u].op = "ItemCount"
       /\ ret[u].n = Cardinality(DOMAIN items)
       /\ ret[u].n > 0

\* goroutine t is inside a section of code that runs between Lock and Unlock
InCritical(t) ==
  pc[t] \in {"SetWrite", "AddCheck", "AddSet", "ReplaceCheck", "ReplaceSet",
             "IncrementCheck", "IncrementWrite", "DecrementCheck", "DecrementWrite",
             "DeleteBody", "DeleteExpiredScan", "OnEvictedSet", "FlushBody"}

\* C17: DeleteExpired unlocks only while it holds the lock: it holds the lock
\* when it unlocks after the scan, and its return neither unlocks an unlocked
\* lock (a fatal error) nor releases a lock another goroutine holds; and no two
\* goroutines are between Lock and Unlock at once
C17_SweepUnlocksOnce ==
  [][/\ \A t \in Threads :
          /\ Leaves(t, "DeleteExpiredScan") => mu.writer = t
          /\ (Leaves(t, "DeleteExpiredNotify") /\ loc[t].evicted = {}) =>
               /\ pc'[t] = Home(t)
               /\ ~crashed'
               /\ mu' = mu
     /\ \A t, u \in Threads : (InCritical(t) /\ InCritical(u)) => t = u]_vars

\* C18: every operation decides in the same way whether the entry of a key is
\* live (in the map, with expiresAt = 0 or now <= expiresAt): Get and
\* GetWithExpiration report found, Add fails with KeyAlreadyExists, Replace
\* goes on to write, and Items contains the key, exactly when it is
C18_LivenessAgreement ==
  [][\A t \in Callers :
       /\ Leaves(t, "GetRead") => (ret'[t].found <=> Live(items, loc[t].key, now))
       /\ Leaves(t, "GetWithExpirationRead") =>
            (ret'[t].found <=> Live(items, loc[t].key, now))
       /\ Leaves(t, "AddCheck") =>
            ((pc'[t] = "idle" /\ ret'[t].err = ErrExists) <=> Live(items, loc[t].key, now))
       /\ Leaves(t, "ReplaceCheck") =>
            (pc'[t] = "ReplaceSet" <=> Live(items, loc[t].key, now))
       /\ Leaves(t, "ItemsRead") =>
            \A k \in Keys : k \in DOMAIN ret'[t].m <=> Live(items, k, now)]_vars
====
